---- MODULE Spec2Model ----
(***************************************************************************)
(* HostFlow session/vault reconciler (src/services/cloudService.ts, the    *)
(* current cloudSync object at lines 173-364) over the backend client      *)
(* handle of src/services/supabaseClient.ts.                               *)
(*                                                                         *)
(* Every asynchronous operation is a sequence of atomic steps: the call    *)
(* (its synchronous prefix up to the first await) and then one step per    *)
(* awaited remote exchange, which carries the continuation up to the next  *)
(* await or the return.  The remote auth service and the remote table      *)
(* 'vaults' are the environment; each remote exchange may fail.            *)
(*                                                                         *)
(* Strings that the code converts (trim, toLowerCase, slice) are sequences *)
(* of one-character strings, so the conversions are computed.  An absent   *)
(* (undefined / null) value is the empty tuple <<>>, a present value x is  *)
(* <<x>>.                                                                  *)
(***************************************************************************)
EXTENDS Integers, Sequences, FiniteSets, TLC

\* ------------------------------------------------------------------ bounds
\* Largest value of the wall clock (Date.now()).
MaxNow == 1

\* ----------------------------------------------------------------- strings
None == <<>>
Some(x) == <<x>>

LowerChar(c) ==
  CASE c = "A" -> "a"
    [] c = "B" -> "b"
    [] OTHER -> c

\* String.prototype.toLowerCase
ToLowerCase(s) == [i \in 1..Len(s) |-> LowerChar(s[i])]

RECURSIVE TrimStart(_)
TrimStart(s) == IF s # <<>> /\ Head(s) = " " THEN TrimStart(Tail(s)) ELSE s

RECURSIVE TrimEnd(_)
TrimEnd(s) ==
  IF s # <<>> /\ s[Len(s)] = " " THEN TrimEnd(SubSeq(s, 1, Len(s) - 1)) ELSE s

\* String.prototype.trim
Trim(s) == TrimEnd(TrimStart(s))

\* email.trim().toLowerCase(), as sent to signInWithPassword and signUp
NormEmail(email) == ToLowerCase(Trim(email))

\* find with a case-sensitive comparison: a?.userEmail === email
EmailMatchesExact(state, email) ==
  /\ state.userEmail # None
  /\ state.userEmail[1] = email

\* a?.userEmail?.toLowerCase() === email.toLowerCase()
EmailMatches(state, email) ==
  /\ state.userEmail # None
  /\ ToLowerCase(state.userEmail[1]) = ToLowerCase(email)

\* ------------------------------------------------------------- input sets
\* The opaque identity ids of the auth service: the first is registered from
\* the start, the second is the one sign-up issues.
FirstId == <<"u", "1">>
SecondId == <<"u", "2">>
UserIds == {FirstId, SecondId}

\* as typed into the form: to be trimmed and lower-cased
EmailInputs == {<<"A", " ">>, <<"b">>}
PasswordInputs == {<<"p", " ">>}
\* login is also tried with a password no identity has
LoginPasswordInputs == PasswordInputs \cup {<<"q">>}
\* as given to the admin tools
AdminEmailInputs == {<<"A">>, <<"b">>}
NameInputs == {None, Some(<<"N">>)}

\* ------------------------------------------------------------- vault body
StayPackages ==
  << [id |-> "p1", title |-> "Basic Stay", desc |-> "Standard room access.",
      iconType |-> "home"],
     [id |-> "p2", title |-> "Premium Suite", desc |-> "Luxury quarters upgrade.",
      iconType |-> "star"],
     [id |-> "p3", title |-> "Event Hall",
      desc |-> "Access to gardens and main hall.", iconType |-> "sparkles"] >>

\* a seed that lost its last stay package
getInitialStateTwoPackages(email, name, t) ==
  [ properties       |-> <<>>,
    activePropertyId |-> "all",
    allBookings      |-> <<>>,
    allTransactions  |-> <<>>,
    allGuests        |-> <<>>,
    allStaffLogs     |-> <<>>,
    allInventory     |-> <<>>,
    stayPackages     |-> SubSeq(StayPackages, 1, 2),
    timestamp        |-> t,
    userEmail        |-> email,
    userName         |-> name ]

\* getInitialState(email?, name?) evaluated when Date.now() = t
getInitialState(email, name, t) ==
  [ properties       |-> <<>>,
    activePropertyId |-> "all",
    allBookings      |-> <<>>,
    allTransactions  |-> <<>>,
    allGuests        |-> <<>>,
    allStaffLogs     |-> <<>>,
    allInventory     |-> <<>>,
    stayPackages     |-> StayPackages,
    timestamp        |-> t,
    userEmail        |-> email,
    userName         |-> name ]

\* The application states a caller hands to pushData: edited vaults, one whose
\* userEmail is another account's in another case, one with no userEmail.
StateInputs ==
  { [getInitialState(Some(<<"B">>), None, 0) EXCEPT !.allBookings = <<"bk1">>],
    [getInitialState(None, Some(<<"N">>), 0) EXCEPT
       !.allGuests = <<"g1">>, !.stayPackages = <<>>, !.activePropertyId = "prop1",
       !.properties = <<"prop1">>] }

\* ------------------------------------------------------------------ state
VARIABLES
  env,      \* which of the two configuration strings are present
  users,    \* the identities of the remote auth service
  session,  \* the persisted session of this client: None or Some(id)
  vaults,   \* the rows of the remote table 'vaults'
  now,      \* the wall clock
  calls,    \* the reconciler calls: what each is doing and what it returned
  hist,     \* history of each identity's row: applied[id] is the state of the
            \* upsert the store applied last, acked[id] the state of the upsert
            \* whose answer reached its caller last (None once a delete followed),
            \* deleted holds id when the last write was adminDeleteAccount's delete
  form      \* the state of the Auth component and where its handleSubmit is

vars == <<env, users, session, vaults, now, calls, hist, form>>

\* export const supabase = (supabaseUrl && supabaseAnonKey) ? createClient(..) : null
supabase == env.url /\ env.key

\* ----------------------------------------------------------- remote table
AppVersion == "v41"

\* an upsert that replaces the content of the table by the one row it sends
UpsertReplaceAll(store, id, state, t) ==
  {[user_id |-> id, state |-> state, last_synced |-> t, app_version |-> "v41"]}

\* an insert in place of the upsert: a second write for an id adds a second row
UpsertInsert(store, id, state, t) ==
  store \cup {[user_id |-> id, state |-> state, last_synced |-> t,
               app_version |-> "v41"]}

\* an upsert that merges: an empty list in the new state keeps the stored one
UpsertMerge(store, id, state, t) ==
  LET old == {r \in store : r.user_id = id}
      merged == IF old = {} \/ state.allBookings # <<>>
                  THEN state
                  ELSE [state EXCEPT
                          !.allBookings = (CHOOSE r \in old : TRUE).state.allBookings]
  IN {r \in store : r.user_id # id}
       \cup {[user_id |-> id, state |-> merged, last_synced |-> t,
              app_version |-> "v41"]}

\* .upsert({user_id, state, last_synced, app_version}) on the primary key
\* user_id: insert if absent, replace the whole row if present
Upsert(store, id, state, t) ==
  {r \in store : r.user_id # id}
    \cup {[user_id |-> id, state |-> state, last_synced |-> t,
           app_version |-> AppVersion]}

\* .select(..).eq('user_id', id)
SelectEq(store, id) == {r \in store : r.user_id = id}

\* a delete sent without its filter
DeleteEqAll(store, id) == {}

\* a delete whose filter matches no row
DeleteEqNoRow(store, id) == store

\* .delete().eq('user_id', id)
DeleteEq(store, id) == {r \in store : r.user_id # id}

\* vaults.find(v => v.state?.userEmail?.toLowerCase() === email.toLowerCase()):
\* the rows find can return (the first match, in the order the remote sends)
FindByEmail(rows, email) == {r \in rows : EmailMatches(r.state, email)}

\* ------------------------------------------------------------ remote auth
\* the identity signInWithPassword resolves the credentials to
Matching(email, password) ==
  {u \in users : u.email = NormEmail(email) /\ u.password = Trim(password)}

UserOf(id) == {u \in users : u.id = id}

\* the identity of the persisted session (session.user, or getUser's user)
SessionUser == IF session = None THEN {} ELSE UserOf(session[1])

\* options.data.full_name: name || 'Host'
FullName(name) == IF name = None \/ name[1] = <<>> THEN <<"H">> ELSE name[1]

\* ---------------------------------------------------------------- results
Pending == [kind |-> "pending", ok |-> FALSE, state |-> None, error |-> "",
            warning |-> None, list |-> {}]
\* a plain return value: null, nothing, a vault, a boolean, a list
RetNull == [Pending EXCEPT !.kind = "null"]
RetVoid == [Pending EXCEPT !.kind = "void"]
RetState(s) == [Pending EXCEPT !.kind = "state", !.state = Some(s)]
RetBool(b) == [Pending EXCEPT !.kind = "bool", !.ok = b]
RetList(l) == [Pending EXCEPT !.kind = "list", !.list = l]
\* LoginResult: { ok: true, state, warning? } | { ok: false, error }
RetOk(s, w) == [Pending EXCEPT !.kind = "result", !.ok = TRUE, !.state = Some(s),
                               !.warning = w]
RetFail(msg) == [Pending EXCEPT !.kind = "result", !.error = msg]
\* a rejected promise
Thrown(msg) == [Pending EXCEPT !.kind = "throw", !.error = msg]

\* A call: the operation, where it is, its arguments and its locals.
\*   email, password, name   arguments of login / createAccount / admin tools
\*   state                   pushData's state (initialState, freshState)
\*   userId                  the identity id the call works on
\*   user                    data.user / session.user
\*   hasSession              data.session is set
\*   authError               authError / signUpError / sessionError message
\*   dbError                 the error of the last exchange with the table
Idle == [op |-> "none", pc |-> "idle", email |-> <<>>, password |-> <<>>,
         name |-> None, state |-> None, userId |-> None, user |-> None,
         hasSession |-> FALSE, authError |-> None, dbError |-> None,
         result |-> Pending]

Procs == {1}

\* Auth: useState(true), useState(false), useState(null) three times, the text
\* fields; pc is the await handleSubmit is suspended at, onLogin the vault the
\* component handed to props.onLogin
FormInit ==
  [isLogin |-> TRUE, isLoading |-> FALSE, error |-> None, success |-> None,
   info |-> None, email |-> <<>>, password |-> <<>>, name |-> <<>>,
   pc |-> "idle", onLogin |-> None]

Init ==
  /\ env \in [url : BOOLEAN, key : BOOLEAN]
  /\ users = {[id |-> FirstId, email |-> <<"a">>, password |-> <<"p">>,
               full_name |-> None, confirmed |-> TRUE]}
  /\ session = None
  /\ vaults = {}
  /\ now = 0
  /\ calls = [p \in Procs |-> Idle]
  /\ hist = [applied |-> [id \in UserIds |-> None],
             acked |-> [id \in UserIds |-> None], deleted |-> {}]
  /\ form = FormInit

Free(p) == calls[p].pc \in {"idle", "done"}
\* the call in this slot is a call of op that has returned or thrown
Returned(p, op) == calls[p].op = op /\ calls[p].pc = "done"

Set(p, c) == calls' = [calls EXCEPT ![p] = c]
Finish(c, res) == [c EXCEPT !.pc = "done", !.result = res]
\* an operation that does not look at the handle before its first remote call
EnterUnchecked(p, c, pc, unavailable) == Set(p, [c EXCEPT !.pc = pc])

\* the unavailable sentinel: the call returns at once, or goes to its first await
Enter(p, c, pc, unavailable) ==
  IF ~supabase THEN Set(p, Finish(c, unavailable)) ELSE Set(p, [c EXCEPT !.pc = pc])

\* ------------------------------------------------ fetchVault's two outcomes
\* fetchVault returned `state` to its caller
FetchReturn(c, state) ==
  CASE c.op = "login" -> Finish(c, RetOk(state, None))
    [] OTHER -> Finish(c, RetState(state))

WarningOf(msg) ==
  Some(<<"Cloud vault inaccessible (", msg, "). Operating in session-only mode.">>)

\* getInitialState(data.user.email, data.user.user_metadata?.full_name)
Fallback(c, t) == getInitialState(Some(c.user[1].email), c.user[1].full_name, t)

\* no try/catch around fetchVault: the error reaches the caller of login
FetchThrowUncaught(c, msg, t) == Finish(c, Thrown(msg))

\* fetchVault threw an error with this message: login and resumeSession catch it
FetchThrow(c, msg, t) ==
  CASE c.op = "login" -> Finish(c, RetOk(Fallback(c, t), WarningOf(msg)))
    [] c.op = "resumeSession" -> Finish(c, RetState(Fallback(c, t)))
    [] OTHER -> Finish(c, Thrown(msg))

\* ------------------------------------------------------------ resumeSession
ResumeSession(p) ==
  /\ Free(p)
  /\ Enter(p, [Idle EXCEPT !.op = "resumeSession"], "getSession", RetNull)
  /\ UNCHANGED <<form, env, users, session, vaults, now, hist>>

\* await supabase.auth.getSession()
GetSession(p) ==
  /\ calls[p].pc = "getSession"
  /\ \/ Set(p, Finish([calls[p] EXCEPT !.authError = Some("Failed to fetch")],
                      RetNull))
     \/ /\ SessionUser = {}
        /\ Set(p, Finish(calls[p], RetNull))
     \/ \E u \in SessionUser :
          Set(p, [calls[p] EXCEPT !.pc = "select", !.userId = Some(u.id),
                                  !.user = Some(u), !.hasSession = TRUE])
  /\ UNCHANGED <<form, env, users, session, vaults, now, hist>>

\* -------------------------------------------------------------------- login
\* login up to its first await
LoginCall(p, email, password) ==
  /\ Free(p)
  /\ Enter(p, [Idle EXCEPT !.op = "login", !.email = email, !.password = password],
           "signIn", RetFail("Supabase client not initialized."))

Login(p, email, password) ==
  /\ LoginCall(p, email, password)
  /\ UNCHANGED <<form, env, users, session, vaults, now, hist>>

\* the reason the auth service gives for rejecting these credentials
SignInErrors(m) ==
  {"Failed to fetch"}
    \cup (IF m = {} THEN {"Invalid login credentials"} ELSE {})
    \cup (IF \E u \in m : ~u.confirmed THEN {"Email not confirmed"} ELSE {})

\* the login of the first version of the reconciler: null for every failure
AfterSignInNull(c, error, user, hasSession) ==
  LET d == [c EXCEPT !.authError = error, !.hasSession = hasSession]
  IN IF error # None \/ user = None
       THEN Finish(d, RetNull)
       ELSE [d EXCEPT !.pc = "select", !.userId = Some(user[1].id), !.user = user]

\* what login does with signInWithPassword's { data: { user }, error: authError }
AfterSignIn(c, error, user, hasSession) ==
  LET d == [c EXCEPT !.authError = error, !.hasSession = hasSession]
  IN CASE error # None -> Finish(d, RetFail(error[1]))
       [] user = None ->
            Finish(d, RetFail("Authentication succeeded but no user data returned."))
       [] OTHER -> [d EXCEPT !.pc = "select", !.userId = Some(user[1].id),
                             !.user = user]

\* await supabase.auth.signInWithPassword({email, password})
SignIn(p) ==
  /\ calls[p].pc = "signIn"
  /\ LET m == Matching(calls[p].email, calls[p].password)
     IN \/ /\ \E msg \in SignInErrors(m) :
                Set(p, AfterSignIn(calls[p], Some(msg), None, FALSE))
           /\ UNCHANGED session
        \/ \E u \in m :
             /\ u.confirmed
             /\ session' = Some(u.id)
             /\ \/ Set(p, AfterSignIn(calls[p], None, Some(u), TRUE))
                \/ Set(p, AfterSignIn(calls[p], None, None, TRUE))
  /\ UNCHANGED <<form, env, users, vaults, now, hist>>

\* ------------------------------------------------------------ createAccount
\* createAccount up to its first await
CreateAccountCall(p, email, password, name) ==
  /\ Free(p)
  /\ Enter(p, [Idle EXCEPT !.op = "createAccount", !.email = email,
                           !.password = password, !.name = name],
           "signUp", RetFail("Supabase not connected"))

CreateAccount(p, email, password, name) ==
  /\ CreateAccountCall(p, email, password, name)
  /\ UNCHANGED <<form, env, users, session, vaults, now, hist>>

\* createAccount that does not look at data.session
AfterSignUpAnyUser(c, error, user, hasSession, t) ==
  LET d == [c EXCEPT !.authError = error, !.user = user, !.hasSession = hasSession]
  IN CASE error # None -> Finish(d, RetFail(error[1]))
       [] user # None ->
            [d EXCEPT !.pc = "upsert", !.userId = Some(user[1].id),
                      !.state = Some(getInitialState(Some(user[1].email), c.name, t))]
       [] OTHER -> Finish(d, RetFail("Registration process failed to return identity."))

\* what createAccount does with signUp's { data: { user, session }, error }
AfterSignUp(c, error, user, hasSession, t) ==
  LET d == [c EXCEPT !.authError = error, !.user = user, !.hasSession = hasSession]
  IN CASE error # None -> Finish(d, RetFail(error[1]))
       [] hasSession /\ user # None ->
            [d EXCEPT !.pc = "upsert", !.userId = Some(user[1].id),
                      !.state = Some(getInitialState(Some(user[1].email), c.name, t))]
       [] user # None ->
            Finish(d, RetFail(
              "Confirmation Required: Check your inbox to activate your vault."))
       [] OTHER -> Finish(d, RetFail("Registration process failed to return identity."))

\* await supabase.auth.signUp({email, password, options: {data: {full_name}}})
SignUp(p) ==
  /\ calls[p].pc = "signUp"
  /\ LET c == calls[p]
         e == NormEmail(c.email)
         taken == {u \in users : u.email = e}
         new(confirmed) ==
           [id |-> SecondId, email |-> e, password |-> Trim(c.password),
            full_name |-> Some(FullName(c.name)), confirmed |-> confirmed]
     IN \/ /\ \E msg \in {"Failed to fetch"}
                           \cup (IF taken # {} THEN {"User already registered"} ELSE {}) :
                Set(p, AfterSignUp(c, Some(msg), None, FALSE, now))
           /\ UNCHANGED <<users, session>>
        \/ /\ taken = {} /\ UserOf(SecondId) = {}
           /\ \/ /\ users' = users \cup {new(TRUE)}
                 /\ session' = Some(SecondId)
                 /\ Set(p, AfterSignUp(c, None, Some(new(TRUE)), TRUE, now))
              \/ /\ users' = users \cup {new(FALSE)}
                 /\ UNCHANGED session
                 /\ Set(p, AfterSignUp(c, None, Some(new(FALSE)), FALSE, now))
        \/ /\ Set(p, AfterSignUp(c, None, None, FALSE, now))
           /\ UNCHANGED <<users, session>>
  /\ UNCHANGED <<form, env, vaults, now, hist>>

\* ------------------------------------------------------------------- logout
Logout(p) ==
  /\ Free(p)
  /\ Enter(p, [Idle EXCEPT !.op = "logout"], "signOut", RetVoid)
  /\ UNCHANGED <<form, env, users, session, vaults, now, hist>>

\* await supabase.auth.signOut()
SignOut(p) ==
  /\ calls[p].pc = "signOut"
  /\ session' = None
  /\ Set(p, Finish(calls[p], RetVoid))
  /\ UNCHANGED <<form, env, users, vaults, now, hist>>

\* ----------------------------------------------------------------- pushData
PushData(p, state, userId) ==
  /\ Free(p)
  /\ Enter(p, [Idle EXCEPT !.op = "pushData", !.state = Some(state),
                           !.userId = userId],
           IF userId = None THEN "getUser" ELSE "upsert", RetBool(FALSE))
  /\ UNCHANGED <<form, env, users, session, vaults, now, hist>>

\* const { data: { user } } = await supabase.auth.getUser(); targetUserId = user?.id
PushGetUser(p) ==
  /\ calls[p].pc = "getUser"
  /\ \/ Set(p, Finish(calls[p], RetBool(FALSE)))
     \/ \E u \in SessionUser :
          Set(p, [calls[p] EXCEPT !.pc = "upsert", !.userId = Some(u.id)])
  /\ UNCHANGED <<form, env, users, session, vaults, now, hist>>

\* fetchVault that does not look at pushData's boolean
AfterPushUnchecked(c, error, t) ==
  LET d == [c EXCEPT !.dbError = error]
  IN CASE c.op = "pushData" -> Finish(d, RetBool(error = None))
       [] c.op = "createAccount" -> Finish(d, RetOk(c.state[1], None))
       [] OTHER -> FetchReturn(d, c.state[1])

\* pushData that logs the error and returns true all the same
AfterPushAlwaysTrue(c, error, t) ==
  LET d == [c EXCEPT !.dbError = error]
  IN CASE c.op = "pushData" -> Finish(d, RetBool(TRUE))
       [] c.op = "createAccount" -> Finish(d, RetOk(c.state[1], None))
       [] OTHER -> IF error = None THEN FetchReturn(d, c.state[1])
                                   ELSE FetchThrow(d, "Failed to initialize vault.", t)

\* what pushData returns after the upsert, and what its caller does with it
AfterPush(c, error, t) ==
  LET d == [c EXCEPT !.dbError = error]
      success == (error = None)
  IN CASE c.op = "pushData" -> Finish(d, RetBool(success))
       [] c.op = "createAccount" -> Finish(d, RetOk(c.state[1], None))
       [] OTHER -> IF success THEN FetchReturn(d, c.state[1])
                              ELSE FetchThrow(d, "Failed to initialize vault.", t)

\* await supabase.from('vaults').upsert({...})
UpsertRow(p) ==
  /\ calls[p].pc = "upsert"
  /\ LET id == calls[p].userId[1]
         state == calls[p].state[1]
     IN \/ /\ Set(p, AfterPush(calls[p], Some("Failed to fetch"), now))
           /\ UNCHANGED <<vaults, hist>>
        \/ /\ Set(p, AfterPush(calls[p], None, now))
           /\ vaults' = Upsert(vaults, id, state, now)
           /\ hist' = [hist EXCEPT !.applied[id] = Some(state),
                                    !.acked[id] = Some(state), !.deleted = @ \ {id}]
  /\ UNCHANGED <<form, env, users, session, now>>

\* The same exchange for calls that overlap, as the two messages it is made of:
\* the store applies the request (or the request fails), and the answer reaches
\* the awaiting call later, after whatever the other calls did in between.
UpsertApply(p) ==
  /\ calls[p].pc = "upsert"
  /\ LET id == calls[p].userId[1]
         state == calls[p].state[1]
     IN \/ /\ Set(p, [calls[p] EXCEPT !.pc = "upsertAck",
                                       !.dbError = Some("Failed to fetch")])
           /\ UNCHANGED <<vaults, hist>>
        \/ /\ Set(p, [calls[p] EXCEPT !.pc = "upsertAck", !.dbError = None])
           /\ vaults' = Upsert(vaults, id, state, now)
           /\ hist' = [hist EXCEPT !.applied[id] = Some(state), !.deleted = @ \ {id}]
  /\ UNCHANGED <<form, env, users, session, now>>

\* const { error } = await ..: the awaiting call resumes with the answer
UpsertAck(p) ==
  /\ calls[p].pc = "upsertAck"
  /\ Set(p, AfterPush(calls[p], calls[p].dbError, now))
  /\ hist' = IF calls[p].dbError = None
               THEN [hist EXCEPT !.acked[calls[p].userId[1]] = calls[p].state]
               ELSE hist
  /\ UNCHANGED <<form, env, users, session, vaults, now>>

\* --------------------------------------------------------------- fetchVault
FetchVault(p, userId) ==
  /\ Free(p)
  /\ Enter(p, [Idle EXCEPT !.op = "fetchVault", !.userId = Some(userId)],
           "select", Thrown("Supabase client unavailable."))
  /\ UNCHANGED <<form, env, users, session, vaults, now, hist>>

\* fetchVault that seeds a default vault whatever the read returned
AfterSelectAlwaysSeed(c, error, data, t) ==
  LET d == [c EXCEPT !.dbError = error]
  IN IF error # None THEN FetchThrow(d, error[1], t) ELSE [d EXCEPT !.pc = "provision"]

\* what fetchVault does with maybeSingle's { data, error }
AfterSelect(c, error, data, t) ==
  LET d == [c EXCEPT !.dbError = error]
  IN CASE error # None -> FetchThrow(d, error[1], t)
       [] data = {} -> [d EXCEPT !.pc = "provision"]
       [] OTHER -> FetchReturn(d, (CHOOSE r \in data : TRUE).state)

\* await supabase.from('vaults').select('state').eq('user_id', userId).maybeSingle()
SelectRow(p) ==
  /\ calls[p].pc = "select"
  /\ LET rows == SelectEq(vaults, calls[p].userId[1])
     IN \/ Set(p, AfterSelect(calls[p], Some("Failed to fetch"), {}, now))
        \/ /\ Cardinality(rows) > 1
           /\ Set(p, AfterSelect(calls[p],
                Some("JSON object requested, multiple (or no) rows returned"), {}, now))
        \/ /\ Cardinality(rows) <= 1
           /\ Set(p, AfterSelect(calls[p], None, rows, now))
  /\ UNCHANGED <<form, env, users, session, vaults, now, hist>>

\* const { data: { user } } = await supabase.auth.getUser();
\* const freshState = getInitialState(user?.email, user?.user_metadata?.full_name)
FreshState(user, t) ==
  IF user = None THEN getInitialState(None, None, t)
                 ELSE getInitialState(Some(user[1].email), user[1].full_name, t)

ProvisionGetUser(p) ==
  /\ calls[p].pc = "provision"
  /\ \E user \in {None} \cup {Some(u) : u \in SessionUser} :
       Set(p, [calls[p] EXCEPT !.pc = "upsert", !.state = Some(FreshState(user, now))])
  /\ UNCHANGED <<form, env, users, session, vaults, now, hist>>

\* ---------------------------------------------------------------- admin tools
\* String.prototype.slice(0, n)
Slice(s, n) == SubSeq(s, 1, IF Len(s) < n THEN Len(s) ELSE n)

\* row.state?.userEmail || `User ${row.user_id.slice(0, 8)}`
LabelOf(row) ==
  IF row.state.userEmail # None /\ row.state.userEmail[1] # <<>>
    THEN row.state.userEmail[1]
    ELSE <<"U", "s", "e", "r", " ">> \o Slice(row.user_id, 8)

AdminListAccounts(p) ==
  /\ Free(p)
  /\ Enter(p, [Idle EXCEPT !.op = "adminListAccounts"], "listSelect", RetList({}))
  /\ UNCHANGED <<form, env, users, session, vaults, now, hist>>

\* await supabase.from('vaults').select('user_id, last_synced, state')
ListSelect(p) ==
  /\ calls[p].pc = "listSelect"
  /\ \/ Set(p, Finish([calls[p] EXCEPT !.dbError = Some("Failed to fetch")],
                      RetList({})))
     \/ Set(p, Finish(calls[p],
                      RetList({[email |-> LabelOf(r), createdAt |-> r.last_synced,
                                userId |-> r.user_id] : r \in vaults})))
  /\ UNCHANGED <<form, env, users, session, vaults, now, hist>>

AdminGetUserData(p, email) ==
  /\ Free(p)
  /\ Enter(p, [Idle EXCEPT !.op = "adminGetUserData", !.email = email],
           "getSelect", RetNull)
  /\ UNCHANGED <<form, env, users, session, vaults, now, hist>>

\* await supabase.from('vaults').select('state'), then data.find(..)
GetSelect(p) ==
  /\ calls[p].pc = "getSelect"
  /\ LET found == FindByEmail(vaults, calls[p].email)
     IN \/ Set(p, Finish([calls[p] EXCEPT !.dbError = Some("Failed to fetch")],
                         RetNull))
        \/ /\ found = {}
           /\ Set(p, Finish(calls[p], RetNull))
        \/ \E vault \in found :
             Set(p, Finish([calls[p] EXCEPT !.userId = Some(vault.user_id)],
                           RetState(vault.state)))
  /\ UNCHANGED <<form, env, users, session, vaults, now, hist>>

AdminDeleteAccount(p, email) ==
  /\ Free(p)
  /\ Enter(p, [Idle EXCEPT !.op = "adminDeleteAccount", !.email = email],
           "deleteSelect", RetBool(FALSE))
  /\ UNCHANGED <<form, env, users, session, vaults, now, hist>>

\* await supabase.from('vaults').select('user_id, state'), then vaults?.find(..)
DeleteSelect(p) ==
  /\ calls[p].pc = "deleteSelect"
  /\ LET found == FindByEmail(vaults, calls[p].email)
     IN \/ Set(p, Finish([calls[p] EXCEPT !.dbError = Some("Failed to fetch")],
                         RetBool(FALSE)))
        \/ /\ found = {}
           /\ Set(p, Finish(calls[p], RetBool(FALSE)))
        \/ \E target \in found :
             Set(p, [calls[p] EXCEPT !.pc = "delete",
                                     !.userId = Some(target.user_id)])
  /\ UNCHANGED <<form, env, users, session, vaults, now, hist>>

\* await supabase.from('vaults').delete().eq('user_id', target.user_id); return !error
DeleteRow(p) ==
  /\ calls[p].pc = "delete"
  /\ LET id == calls[p].userId[1]
     IN \/ /\ Set(p, Finish([calls[p] EXCEPT !.dbError = Some("Failed to fetch")],
                            RetBool(FALSE)))
           /\ UNCHANGED <<vaults, hist>>
        \/ /\ Set(p, Finish(calls[p], RetBool(TRUE)))
           /\ vaults' = DeleteEq(vaults, id)
           /\ hist' = [hist EXCEPT !.applied[id] = None, !.acked[id] = None,
                                    !.deleted = @ \cup {id}]
  /\ UNCHANGED <<form, env, users, session, now>>

\* -------------------------------------------------------------- environment
\* the owner of an unconfirmed identity follows the confirmation link
ConfirmEmail ==
  /\ \E u \in users :
       /\ ~u.confirmed
       /\ users' = (users \ {u}) \cup {[u EXCEPT !.confirmed = TRUE]}
  /\ UNCHANGED <<form, env, session, vaults, now, calls, hist>>

\* time passes
Tick ==
  /\ now < MaxNow
  /\ now' = now + 1
  /\ UNCHANGED <<form, env, users, session, vaults, calls, hist>>

\* ------------------------------------------------------------ specification
Next ==
  \/ \E p \in DOMAIN calls : ResumeSession(p)
  \/ \E p \in DOMAIN calls : GetSession(p)
  \/ \E p \in DOMAIN calls, email \in EmailInputs, password \in LoginPasswordInputs :
       Login(p, email, password)
  \/ \E p \in DOMAIN calls : SignIn(p)
  \/ \E p \in DOMAIN calls, email \in EmailInputs, password \in PasswordInputs,
        name \in NameInputs : CreateAccount(p, email, password, name)
  \/ \E p \in DOMAIN calls : SignUp(p)
  \/ \E p \in DOMAIN calls : Logout(p)
  \/ \E p \in DOMAIN calls : SignOut(p)
  \/ \E p \in DOMAIN calls, state \in StateInputs,
        userId \in {None} \cup {Some(u.id) : u \in users} : PushData(p, state, userId)
  \/ \E p \in DOMAIN calls : PushGetUser(p)
  \/ \E p \in DOMAIN calls : UpsertRow(p)
  \/ \E p \in DOMAIN calls, u \in users : FetchVault(p, u.id)
  \/ \E p \in DOMAIN calls : SelectRow(p)
  \/ \E p \in DOMAIN calls : ProvisionGetUser(p)
  \/ \E p \in DOMAIN calls : AdminListAccounts(p)
  \/ \E p \in DOMAIN calls : ListSelect(p)
  \/ \E p \in DOMAIN calls, email \in AdminEmailInputs : AdminGetUserData(p, email)
  \/ \E p \in DOMAIN calls : GetSelect(p)
  \/ \E p \in DOMAIN calls, email \in AdminEmailInputs : AdminDeleteAccount(p, email)
  \/ \E p \in DOMAIN calls : DeleteSelect(p)
  \/ \E p \in DOMAIN calls : DeleteRow(p)
  \/ ConfirmEmail
  \/ Tick

\* One call at a time: a call begins when the one before has returned.
Spec == Init /\ [][Next]_vars

\* Overlapping calls: two calls at a time against a configured backend, their
\* awaited exchanges interleaved in every order.
ConcProcs == {1, 2}

InitConc ==
  /\ env = [url |-> TRUE, key |-> TRUE]
  /\ users = {[id |-> FirstId, email |-> <<"a">>, password |-> <<"p">>,
               full_name |-> None, confirmed |-> TRUE]}
  /\ session = None
  /\ vaults = {}
  /\ now = 0
  /\ calls = [p \in ConcProcs |-> Idle]
  /\ hist = [applied |-> [id \in UserIds |-> None],
             acked |-> [id \in UserIds |-> None], deleted |-> {}]
  /\ form = FormInit

ConcEmailInputs == {<<"A", " ">>}
ConcAdminEmailInputs == {<<"A">>}

NextConc ==
  \/ \E p \in DOMAIN calls : ResumeSession(p)
  \/ \E p \in DOMAIN calls : GetSession(p)
  \/ \E p \in DOMAIN calls, email \in ConcEmailInputs, password \in PasswordInputs :
       Login(p, email, password)
  \/ \E p \in DOMAIN calls : SignIn(p)
  \/ \E p \in DOMAIN calls, state \in StateInputs,
        userId \in {None} \cup {Some(u.id) : u \in users} : PushData(p, state, userId)
  \/ \E p \in DOMAIN calls : PushGetUser(p)
  \/ \E p \in DOMAIN calls : UpsertApply(p)
  \/ \E p \in DOMAIN calls : UpsertAck(p)
  \/ \E p \in DOMAIN calls, u \in users : FetchVault(p, u.id)
  \/ \E p \in DOMAIN calls : SelectRow(p)
  \/ \E p \in DOMAIN calls : ProvisionGetUser(p)
  \/ \E p \in DOMAIN calls, email \in ConcAdminEmailInputs :
       AdminDeleteAccount(p, email)
  \/ \E p \in DOMAIN calls : DeleteSelect(p)
  \/ \E p \in DOMAIN calls : DeleteRow(p)

SpecConc == InitConc /\ [][NextConc]_vars

\* ------------------------------------------------------- the Auth component
\* handleSubmit hands createAccount the object initialState as third argument,
\* where createAccount takes the display name. An object is written here as a
\* one-element sequence, which is the text of no field.
InitialStateArg == <<"[object Object]">>

\* what the user types into the name field
FormNameInputs == {<<"N">>}

\* String.prototype.toLowerCase on the messages a LoginResult carries
ToLowerMsg(msg) ==
  CASE msg = "Email not confirmed" -> "email not confirmed"
    [] msg = "Invalid login credentials" -> "invalid login credentials"
    [] msg = "Failed to fetch" -> "failed to fetch"
    [] msg = "Supabase client not initialized." -> "supabase client not initialized."
    [] msg = "Authentication succeeded but no user data returned."
         -> "authentication succeeded but no user data returned."
    [] OTHER -> msg

\* String.prototype.includes on those messages
Includes(msg, part) ==
  <<msg, part>> \in {<<"email not confirmed", "email not confirmed">>,
                     <<"invalid login credentials", "invalid login">>}

\* result.success, result.confirmationRequired: a property the object lacks is
\* undefined
Truthy(r, field) == field \in DOMAIN r /\ r[field] = TRUE

\* catch (err): setError("A critical system error occurred: " + ..)
Caught(f, msg) ==
  [f EXCEPT !.pc = "idle", !.isLoading = FALSE,
            !.error = Some(<<"A critical system error occurred: ", msg>>)]

\* a login flow whose failure branch forgets setIsLoading(false)
AfterLoginKeepsLoading(f, r) ==
  IF r.kind = "throw" THEN Caught(f, r.error)
  ELSE IF r.ok THEN [f EXCEPT !.pc = "idle", !.onLogin = r.state]
  ELSE [f EXCEPT !.pc = "idle", !.error = Some(<<r.error>>)]

\* the login flow after `await cloudSync.login(email, password)`
AfterLogin(f, r) ==
  LET g == [f EXCEPT !.pc = "idle"]
  IN IF r.kind = "throw" THEN Caught(f, r.error)
     ELSE IF r.ok THEN [g EXCEPT !.onLogin = r.state]
     ELSE IF Includes(ToLowerMsg(r.error), "email not confirmed")
       THEN [g EXCEPT !.isLoading = FALSE, !.info = Some(<<
              "Email confirmation required. Please check your inbox or disable 'Confirm Email' in Supabase dashboard.">>)]
     ELSE IF Includes(ToLowerMsg(r.error), "invalid login")
       THEN [g EXCEPT !.isLoading = FALSE, !.error = Some(<<
              "Invalid login credentials. Please double check your email and password.">>)]
     ELSE [g EXCEPT !.isLoading = FALSE, !.error = Some(<<r.error>>)]

\* the signup flow after `await cloudSync.createAccount(email, password, initialState)`
AfterCreateAccount(f, r) ==
  IF r.kind = "throw" THEN Caught(f, r.error)
  ELSE IF Truthy(r, "success")
    THEN IF Truthy(r, "confirmationRequired")
           THEN [f EXCEPT !.pc = "idle", !.isLogin = TRUE, !.isLoading = FALSE,
                          !.success = Some(<<
                  "Account created! Check your email for a confirmation link to activate your dashboard.">>)]
           ELSE [f EXCEPT !.pc = "autoLogin", !.success = Some(<<
                  "Account initialized! Launching dashboard...">>)]
    ELSE [f EXCEPT !.pc = "idle", !.isLoading = FALSE,
                   !.error = IF r.error # ""
                               THEN Some(<<r.error>>)
                               ELSE Some(<<
                  "Signup failed. Ensure your password is at least 6 characters.">>)]

\* the auto-login after `await cloudSync.login(email, password)`
AfterAutoLogin(f, r) ==
  IF r.kind = "throw" THEN Caught(f, r.error)
  ELSE IF r.ok THEN [f EXCEPT !.pc = "idle", !.onLogin = r.state]
  ELSE [f EXCEPT !.pc = "idle", !.isLoading = FALSE,
                 !.error = Some(<<"Account created but auto-login failed: ", r.error>>)]

\* onClick of the link under the form
ToggleMode ==
  /\ form' = [form EXCEPT !.isLogin = ~form.isLogin, !.error = None,
                          !.success = None, !.info = None]
  /\ UNCHANGED <<env, users, session, vaults, now, calls, hist>>

\* handleSubmit up to its first await; the button is disabled while loading
Submit(p, email, password, name) ==
  /\ ~form.isLoading
  /\ LET f == [form EXCEPT !.error = None, !.success = None, !.info = None,
                           !.isLoading = TRUE, !.email = email,
                           !.password = password, !.name = name]
     IN IF form.isLogin
          THEN /\ form' = [f EXCEPT !.pc = "login"]
               /\ LoginCall(p, email, password)
          ELSE /\ form' = [f EXCEPT !.pc = "createAccount"]
               /\ CreateAccountCall(p, email, password, Some(InitialStateArg))
  /\ UNCHANGED <<env, users, session, vaults, now, hist>>

\* handleSubmit resumes with login's result
LoginResult(p) ==
  /\ form.pc = "login"
  /\ Returned(p, "login")
  /\ form' = AfterLogin(form, calls[p].result)
  /\ UNCHANGED <<env, users, session, vaults, now, calls, hist>>

\* handleSubmit resumes with createAccount's result
SignUpResult(p) ==
  /\ form.pc = "createAccount"
  /\ Returned(p, "createAccount")
  /\ form' = AfterCreateAccount(form, calls[p].result)
  /\ IF form'.pc = "autoLogin"
       THEN LoginCall(p, form.email, form.password)
       ELSE UNCHANGED calls
  /\ UNCHANGED <<env, users, session, vaults, now, hist>>

\* handleSubmit resumes with the auto-login's result
AutoLoginResult(p) ==
  /\ form.pc = "autoLogin"
  /\ Returned(p, "login")
  /\ form' = AfterAutoLogin(form, calls[p].result)
  /\ UNCHANGED <<env, users, session, vaults, now, calls, hist>>

\* The component on screen: the user toggles the mode and submits, the
\* reconciler's calls are the ones handleSubmit makes. AutoLoginResult is no
\* step of it: no result of createAccount carries `success`, so handleSubmit
\* is never suspended at the auto-login.
InitAuth == Init

NextAuth ==
  \/ ToggleMode
  \/ \E p \in DOMAIN calls, email \in EmailInputs, password \in LoginPasswordInputs,
        name \in FormNameInputs : Submit(p, email, password, name)
  \/ \E p \in DOMAIN calls : LoginResult(p)
  \/ \E p \in DOMAIN calls : SignUpResult(p)
  \/ \E p \in DOMAIN calls : SignIn(p)
  \/ \E p \in DOMAIN calls : SignUp(p)
  \/ \E p \in DOMAIN calls : SelectRow(p)
  \/ \E p \in DOMAIN calls : ProvisionGetUser(p)
  \/ \E p \in DOMAIN calls : UpsertRow(p)
  \/ ConfirmEmail

SpecAuth == InitAuth /\ [][NextAuth]_vars

\* The same component where what is awaited does come back: every remote
\* exchange is answered and every continuation of handleSubmit runs. The
\* user's own steps (toggling, submitting, confirming the email) are not forced.
SpecAuthFair ==
  /\ SpecAuth
  /\ WF_vars(\E p \in Procs : LoginResult(p))
  /\ WF_vars(\E p \in Procs : SignUpResult(p))
  /\ WF_vars(\E p \in Procs : SignIn(p))
  /\ WF_vars(\E p \in Procs : SignUp(p))
  /\ WF_vars(\E p \in Procs : SelectRow(p))
  /\ WF_vars(\E p \in Procs : ProvisionGetUser(p))
  /\ WF_vars(\E p \in Procs : UpsertRow(p))

\* =================================================================== claims

\* the rows of the store keyed by id hold exactly this state, in one row
HoldsExactly(store, id, state) ==
  /\ Cardinality(SelectEq(store, id)) = 1
  /\ \A r \in SelectEq(store, id) : r.state = state

\* a vault as seeded for this email and name
IsSeeded(state, email, name) ==
  /\ state.timestamp \in 0..now
  /\ state = getInitialState(email, name, state.timestamp)

\* C1: once signInWithPassword returned an identity, login returns ok:true with
\* a vault and never throws, whatever the vault fetch did: after a fetch that
\* succeeded the vault is the stored one and there is no warning; after a fetch
\* that failed (read error, provisioning write error) the vault is a freshly
\* seeded default for the identity and the result carries a warning.
C1_LoginSucceedsOnceAuthenticated ==
  \A p \in DOMAIN calls :
    (Returned(p, "login") /\ calls[p].user # None) =>
      LET c == calls[p]
          r == c.result
      IN /\ r.kind = "result" /\ r.ok /\ r.state # None
         /\ (c.dbError = None) <=> (r.warning = None)
         /\ c.dbError = None => HoldsExactly(vaults, c.userId[1], r.state[1])
         /\ c.dbError # None =>
              IsSeeded(r.state[1], Some(c.user[1].email), c.user[1].full_name)

C1_Witness ==
  \E p \in DOMAIN calls :
    /\ Returned(p, "login") /\ calls[p].user # None
    /\ calls[p].state # None /\ calls[p].dbError # None
    /\ calls[p].result.ok /\ calls[p].result.warning # None
    /\ SelectEq(vaults, calls[p].userId[1]) = {}

\* C2: a fetchVault(userId) that found no row and returned a document leaves
\* exactly one row keyed by userId; its body is the returned document, with the
\* three stay packages p1, p2, p3, empty bookings, transactions, guests, staff
\* logs, inventory and properties, and activePropertyId 'all'.
C2_FetchVaultSeedsOneDefaultRow ==
  \A p \in DOMAIN calls :
    (Returned(p, "fetchVault") /\ calls[p].state # None
       /\ calls[p].result.kind = "state") =>
      LET doc == calls[p].result.state[1]
      IN /\ HoldsExactly(vaults, calls[p].userId[1], doc)
         /\ [i \in 1..Len(doc.stayPackages) |-> doc.stayPackages[i].id]
              = <<"p1", "p2", "p3">>
         /\ doc.allBookings = <<>> /\ doc.allTransactions = <<>>
         /\ doc.allGuests = <<>> /\ doc.allStaffLogs = <<>>
         /\ doc.allInventory = <<>> /\ doc.properties = <<>>
         /\ doc.activePropertyId = "all"

C2_Witness ==
  \E p \in DOMAIN calls :
    /\ Returned(p, "fetchVault") /\ calls[p].state # None
    /\ calls[p].result.kind = "state"
    /\ calls[p].dbError = None
    /\ SelectEq(vaults, calls[p].userId[1]) # {}

\* C3: while the last acknowledged write to an identity's row is an upsert of
\* state S, the store holds S and nothing else for that identity, and a
\* fetchVault for it that returns a document returns S.
C3_RoundTrip ==
  /\ \A id \in UserIds :
       hist.acked[id] # None => HoldsExactly(vaults, id, hist.acked[id][1])
  /\ \A p \in DOMAIN calls :
       (Returned(p, "fetchVault") /\ calls[p].result.kind = "state"
          /\ hist.acked[calls[p].userId[1]] # None) =>
         calls[p].result.state = hist.acked[calls[p].userId[1]]

\* a fetchVault that found the row an earlier pushData had overwritten
C3_Witness ==
  \E p \in DOMAIN calls :
    /\ Returned(p, "fetchVault") /\ calls[p].state = None
    /\ calls[p].result.kind = "state"
    /\ calls[p].result.state[1] \in StateInputs
    /\ calls[p].result.state[1].allGuests = <<"g1">>
    /\ hist.acked[calls[p].userId[1]] = calls[p].result.state

\* C4: whenever createAccount returns ok:true, a vault row keyed by the new
\* identity exists in the store and its body is the returned vault.
C4_CreateAccountOkHasRow ==
  \A p \in DOMAIN calls :
    (Returned(p, "createAccount") /\ calls[p].result.ok) =>
      HoldsExactly(vaults, calls[p].userId[1], calls[p].result.state[1])

\* C5: with the handle unavailable no operation awaits a remote exchange and
\* none throws.
C5_UnavailableNeverThrows ==
  ~supabase =>
    \A p \in DOMAIN calls :
      /\ calls[p].pc \in {"idle", "done"}
      /\ calls[p].result.kind # "throw"

\* after a delete that returned true: the row is gone, the identity is not
C6_DeleteRemovesRowOnly ==
  \A p \in DOMAIN calls :
    (Returned(p, "adminDeleteAccount") /\ calls[p].result.ok) =>
      /\ SelectEq(vaults, calls[p].userId[1]) = {}
      /\ calls[p].userId[1] \in hist.deleted
      /\ \E u \in users : u.id = calls[p].userId[1] /\ Matching(u.email, u.password) = {u}

\* the step in which a login returns, the delete being the last write to its row
C6_LoginReprovisions ==
  \A p \in DOMAIN calls :
    (/\ calls[p].op = "login" /\ calls[p].pc \in {"select", "provision", "upsert"}
     /\ calls[p].userId[1] \in hist.deleted
     /\ calls'[p].pc = "done") =>
      LET r == calls'[p].result
      IN /\ r.kind = "result" /\ r.ok /\ r.state # None
         /\ r.state[1].timestamp \in 0..now
         /\ r.state[1] = getInitialState(r.state[1].userEmail, r.state[1].userName,
                                         r.state[1].timestamp)
         /\ r.warning = None =>
              /\ HoldsExactly(vaults', calls[p].userId[1], r.state[1])
              /\ calls[p].userId[1] \notin hist'.deleted

\* C6: an adminDeleteAccount that returned true has removed the row of the
\* matched identity and left the identity in the auth service; a login that
\* authenticates as that identity while the delete is the last write to its row
\* returns ok:true with a seeded default vault, and unless it carries a warning
\* the store then holds exactly that vault for the identity.
C6_DeleteThenLogin == []C6_DeleteRemovesRowOnly /\ [][C6_LoginReprovisions]_vars

\* a login about to seed the row that adminDeleteAccount removed
C6_Witness ==
  \E p \in DOMAIN calls :
    /\ calls[p].op = "login" /\ calls[p].pc = "upsert"
    /\ calls[p].userId[1] \in hist.deleted
    /\ SelectEq(vaults, calls[p].userId[1]) = {}

\* C7: createAccount maps signUp's answer to one of four outcomes: an error gives
\* ok:false with the remote reason; identity and session give ok:true with a
\* vault seeded for the identity's email and the given name; an identity without
\* a session gives ok:false with the confirmation reason and no row is written
\* for it; neither gives ok:false with the generic reason.
C7_CreateAccountOutcomes ==
  \A p \in DOMAIN calls :
    (Returned(p, "createAccount") /\ supabase) =>
      LET c == calls[p]
          r == c.result
      IN /\ r.kind = "result"
         /\ r.ok <=> (c.authError = None /\ c.user # None /\ c.hasSession)
         /\ c.authError # None => r.error = c.authError[1]
         /\ r.ok => /\ r.state # None
                    /\ IsSeeded(r.state[1], Some(c.user[1].email), c.name)
                    /\ r.state[1].userEmail = Some(NormEmail(c.email))
         /\ (c.authError = None /\ c.user # None /\ ~c.hasSession) =>
              /\ r.error = "Confirmation Required: Check your inbox to activate your vault."
              /\ SelectEq(vaults, c.user[1].id) = {}
         /\ (c.authError = None /\ c.user = None) =>
              r.error = "Registration process failed to return identity."

C7_Witness ==
  \E p \in DOMAIN calls :
    /\ Returned(p, "createAccount")
    /\ calls[p].authError = None /\ calls[p].user # None /\ ~calls[p].hasSession
    /\ ~calls[p].result.ok

\* C8: resumeSession returns null exactly when the handle is unavailable, the
\* session lookup errors or there is no session; with a session it returns a
\* vault and never throws: the stored one when the fetch succeeded, a seeded
\* default for the session's identity when it failed.
C8_ResumeSessionNeverFails ==
  \A p \in DOMAIN calls :
    Returned(p, "resumeSession") =>
      LET c == calls[p]
          r == c.result
      IN /\ r.kind \in {"null", "state"}
         /\ r.kind = "null" <=> (~supabase \/ c.authError # None \/ c.user = None)
         /\ r.kind = "state" =>
              /\ r.state # None
              /\ c.dbError = None => HoldsExactly(vaults, c.userId[1], r.state[1])
              /\ c.dbError # None =>
                   IsSeeded(r.state[1], Some(c.user[1].email), c.user[1].full_name)

C8_Witness ==
  \E p \in DOMAIN calls :
    /\ Returned(p, "resumeSession") /\ calls[p].dbError # None
    /\ calls[p].result.kind = "state"
    /\ SelectEq(vaults, calls[p].userId[1]) # {}

\* what a returned fetchVault holds, and who throws
C9_FetchVaultResult ==
  \A p \in DOMAIN calls :
    /\ (calls[p].pc = "done" /\ calls[p].result.kind = "throw") =>
         calls[p].op = "fetchVault"
    /\ (Returned(p, "fetchVault") /\ supabase) =>
         /\ calls[p].result.kind \in {"state", "throw"}
         /\ (calls[p].result.kind = "throw") <=> (calls[p].dbError # None)
         /\ calls[p].result.kind = "state" =>
              HoldsExactly(vaults, calls[p].userId[1], calls[p].result.state[1])

\* the step in which fetchVault throws
C9_ThrowWritesNothing ==
  \A p \in DOMAIN calls :
    (/\ calls[p].op = "fetchVault" /\ calls[p].pc # "done"
     /\ calls'[p].pc = "done" /\ calls'[p].result.kind = "throw") =>
      vaults' = vaults

\* C9: only fetchVault throws.  With the handle available it throws exactly when
\* an exchange with the table failed (the read, or the provisioning write), and
\* the step in which it throws writes nothing; a document it returns is the
\* one the store holds for userId.
C9_FetchVaultPropagates == []C9_FetchVaultResult /\ [][C9_ThrowWritesNothing]_vars

C9_Witness ==
  \E p \in DOMAIN calls :
    /\ Returned(p, "fetchVault") /\ calls[p].state # None
    /\ calls[p].result.kind = "throw"
    /\ vaults # {}

\* what a returned pushData holds
C10_PushDataResult ==
  \A p \in DOMAIN calls :
    Returned(p, "pushData") =>
      /\ calls[p].result.kind = "bool"
      /\ calls[p].result.ok =>
           HoldsExactly(vaults, calls[p].userId[1], calls[p].state[1])
      /\ calls[p].dbError # None => ~calls[p].result.ok

\* the step in which pushData returns false
C10_FalseWritesNothing ==
  \A p \in DOMAIN calls :
    (/\ calls[p].op = "pushData" /\ calls[p].pc # "done"
     /\ calls'[p].pc = "done" /\ ~calls'[p].result.ok) =>
      vaults' = vaults

\* C10: pushData returns a boolean and never throws; when it returns true the
\* store holds exactly the given state for the target identity; a remote write
\* error makes it return false, and a pushData that returns false has left
\* every row as it was.
C10_PushDataReportsBoolean == []C10_PushDataResult /\ [][C10_FalseWritesNothing]_vars

C10_Witness ==
  \E p \in DOMAIN calls :
    /\ Returned(p, "pushData") /\ calls[p].dbError # None
    /\ ~calls[p].result.ok
    /\ \E r \in SelectEq(vaults, calls[p].userId[1]) : r.state # calls[p].state[1]

\* the body of this row carries a userEmail equal to email up to letter case
SameEmail(row, email) ==
  /\ row.state.userEmail # None
  /\ ToLowerCase(row.state.userEmail[1]) = ToLowerCase(email)

\* C12: adminGetUserData(email) returns null or a vault body; a body it returns
\* is the body of a stored row whose userEmail equals email up to letter case;
\* it returns null whenever no row's userEmail equals email up to letter case
\* (also when an identity with that email is registered but has no row, or has
\* a row whose userEmail is missing or different); and when such a row exists
\* and the read did not fail it returns a body.
C12_AdminGetMatchesUserEmail ==
  \A p \in DOMAIN calls :
    Returned(p, "adminGetUserData") =>
      LET c == calls[p]
          r == c.result
      IN /\ r.kind \in {"null", "state"}
         /\ r.kind = "state" =>
              \E row \in vaults : /\ row.user_id = c.userId[1]
                                  /\ SameEmail(row, c.email)
                                  /\ row.state = r.state[1]
         /\ (\A row \in vaults : ~SameEmail(row, c.email)) => r.kind = "null"
         /\ (supabase /\ c.dbError = None /\ \E row \in vaults : SameEmail(row, c.email))
              => r.kind = "state"

\* a body found under an email written in another letter case
C12_Witness ==
  \E p \in DOMAIN calls :
    /\ Returned(p, "adminGetUserData") /\ calls[p].result.kind = "state"
    /\ calls[p].result.state[1].userEmail[1] # calls[p].email

\* null for the email of a registered identity whose row carries another userEmail
C12_WitnessNotFound ==
  \E p \in DOMAIN calls :
    /\ Returned(p, "adminGetUserData") /\ calls[p].result.kind = "null"
    /\ supabase /\ calls[p].dbError = None
    /\ \E u \in users : /\ u.email = ToLowerCase(calls[p].email)
                        /\ \E row \in SelectEq(vaults, u.id) :
                             ~SameEmail(row, calls[p].email)

\* both calls are pushData calls for this identity that returned true
BothPushed(id) ==
  /\ Cardinality(DOMAIN calls) = 2
  /\ \A p \in DOMAIN calls :
       /\ Returned(p, "pushData")
       /\ calls[p].userId = Some(id)
       /\ calls[p].result = RetBool(TRUE)

\* C11 as stated: once two pushData calls for one identity have both returned
\* true, the identity's single row holds exactly the state of the call whose
\* acknowledgement arrived last.
C11_LastAcknowledgedWins ==
  \A id \in UserIds :
    BothPushed(id) =>
      /\ hist.acked[id] # None
      /\ HoldsExactly(vaults, id, hist.acked[id][1])

\* C11: once two pushData calls for one identity have both returned true, in
\* whatever order their requests and answers interleaved, the identity has a
\* single row and its body is exactly the state of the call whose upsert the
\* store applied last, which is the state one of the two calls sent and never a
\* merge or mixture of the two.
C11_LastAppliedWins ==
  \A id \in UserIds :
    BothPushed(id) =>
      /\ hist.applied[id] # None
      /\ HoldsExactly(vaults, id, hist.applied[id][1])
      /\ \E p \in DOMAIN calls : calls[p].state = hist.applied[id]

\* two overlapping calls with different states whose answers arrived in the
\* other order than the store applied their requests
C11_Witness ==
  \E id \in UserIds :
    /\ BothPushed(id)
    /\ calls[1].state # calls[2].state
    /\ hist.acked[id] # hist.applied[id]

Keys(store) == {r.user_id : r \in store}

\* C14: a step after which an id that had a row has none is the delete step of
\* an adminDeleteAccount call working on that id; no step of any other
\* operation, whether it succeeds or fails, removes a row.
C14_OnlyAdminDeleteRemoves ==
  [][\A id \in Keys(vaults) \ Keys(vaults') :
       \E p \in DOMAIN calls : /\ calls[p].op = "adminDeleteAccount"
                               /\ calls[p].pc = "delete"
                               /\ calls[p].userId = Some(id)
                               /\ calls'[p].result = RetBool(TRUE)]_vars

\* adminDeleteAccount removed one identity's row while another row stayed
C14_Witness ==
  \E p \in DOMAIN calls :
    /\ Returned(p, "adminDeleteAccount") /\ calls[p].result = RetBool(TRUE)
    /\ calls[p].userId[1] \notin Keys(vaults)
    /\ vaults # {}

\* C15: with the backend unconfigured a login call is never waiting on a remote
\* exchange: it has returned the failure-tagged result whose reason is
\* "Supabase client not initialized.", it has thrown nothing, no answer of the
\* auth service or of the table is recorded in it, and the identities, the
\* session and the rows are as they were at the start.
C15_LoginUnconfigured ==
  \A p \in DOMAIN calls :
    (calls[p].op = "login" /\ ~supabase) =>
      /\ calls[p].pc = "done"
      /\ calls[p].result = RetFail("Supabase client not initialized.")
      /\ calls[p].user = None /\ ~calls[p].hasSession
      /\ calls[p].authError = None /\ calls[p].dbError = None
      /\ session = None /\ vaults = {}
      /\ \A u \in users : u.id = FirstId /\ u.confirmed

C15_Witness ==
  \E p \in DOMAIN calls :
    /\ Returned(p, "login") /\ ~supabase
    /\ calls[p].email # <<>> /\ ~calls[p].result.ok

\* C17: a login call that has no identity from signInWithPassword (the remote
\* rejected the credentials, or accepted them without returning a user) goes
\* from the sign-in exchange straight to its return: it returns ok:false whose
\* reason is the remote's message as it came, or the no-user message, it never
\* exchanges anything with the table, and none of its steps changes a row.
C17_LoginRejected ==
  [][\A p \in DOMAIN calls :
       (calls'[p] # calls[p] /\ calls'[p].op = "login" /\ calls'[p].user = None) =>
         LET c == calls'[p]
             r == c.result
         IN /\ vaults' = vaults
            /\ c.pc \in {"signIn", "done"}
            /\ c.dbError = None /\ c.state = None /\ c.userId = None
            /\ (c.pc = "done" /\ supabase) =>
                 /\ r.kind = "result" /\ ~r.ok /\ r.state = None
                 /\ r.error = IF c.authError # None
                                THEN c.authError[1]
                                ELSE "Authentication succeeded but no user data returned."]_vars

\* rejected credentials while the store holds rows
C17_Witness ==
  \E p \in DOMAIN calls :
    /\ Returned(p, "login") /\ supabase
    /\ calls[p].authError = Some("Invalid login credentials")
    /\ calls[p].result.error = "Invalid login credentials"
    /\ vaults # {}

\* accepted credentials without a user in the answer
C17_WitnessNoUser ==
  \E p \in DOMAIN calls :
    /\ Returned(p, "login") /\ calls[p].hasSession /\ calls[p].user = None
    /\ ~calls[p].result.ok

\* C18: the read of a fetchVault (called directly, by login or by
\* resumeSession) for an id that has a row ends the fetch: the call returns
\* without seeding or writing anything, the store after the step is the store
\* before it, and unless the read failed the document returned is the stored
\* body as it is (for login: ok:true with that body and no warning).
C18_FetchExistingIsReadOnly ==
  [][\A p \in DOMAIN calls :
       (calls[p].pc = "select" /\ calls'[p] # calls[p]
          /\ SelectEq(vaults, calls[p].userId[1]) # {}) =>
         LET c == calls'[p]
         IN /\ vaults' = vaults
            /\ c.pc = "done" /\ c.state = None
            /\ c.dbError = None =>
                 /\ c.result.kind \in {"state", "result"}
                 /\ c.result.kind = "result" => c.result.ok /\ c.result.warning = None
                 /\ \A r \in SelectEq(vaults, c.userId[1]) :
                      c.result.state = Some(r.state)]_vars

\* a login that returned a stored body which is not a seeded default
C18_Witness ==
  \E p \in DOMAIN calls :
    /\ Returned(p, "login") /\ calls[p].result.ok /\ calls[p].dbError = None
    /\ calls[p].state = None
    /\ calls[p].result.state[1] \in StateInputs
    /\ HoldsExactly(vaults, calls[p].userId[1], calls[p].result.state[1])

\* C19: no step of adminDeleteAccount adds or changes a row, and each removes
\* at most one. Its read removes nothing; it goes on to the delete only with
\* the id of a row whose userEmail equals the email up to letter case, and
\* returns false when there is none. Its delete removes nothing but the row of
\* that id: every other row, also one carrying the same userEmail, stays as it
\* is; a delete that returned true left no row for the id, one that returned
\* false removed nothing.
C19_DeleteTouchesOneRow ==
  [][\A p \in DOMAIN calls :
       (calls'[p] # calls[p] /\ calls'[p].op = "adminDeleteAccount") =>
         LET c == calls[p]
             d == calls'[p]
             removed == vaults \ vaults'
         IN /\ vaults' \subseteq vaults
            /\ Cardinality(removed) <= 1
            /\ d.pc = "delete" =>
                 /\ removed = {}
                 /\ \E row \in vaults : /\ SameEmail(row, d.email)
                                        /\ d.userId = Some(row.user_id)
            /\ (d.pc = "done" /\ d.userId = None) =>
                 /\ removed = {}
                 /\ d.result = RetBool(FALSE)
            /\ (d.pc = "done" /\ d.dbError = None
                  /\ \A row \in vaults : ~SameEmail(row, d.email)) => d.userId = None
            /\ (d.pc = "done" /\ d.userId # None) =>
                 /\ removed \subseteq SelectEq(vaults, d.userId[1])
                 /\ d.result \in {RetBool(TRUE), RetBool(FALSE)}
                 /\ d.result = RetBool(TRUE) => SelectEq(vaults', d.userId[1]) = {}
                 /\ d.result = RetBool(FALSE) => removed = {}]_vars

\* a delete that returned true while another identity's row with the same
\* userEmail is still stored
C19_Witness ==
  \E p \in DOMAIN calls :
    /\ Returned(p, "adminDeleteAccount") /\ calls[p].result = RetBool(TRUE)
    /\ \E row \in vaults : /\ SameEmail(row, calls[p].email)
                           /\ row.user_id # calls[p].userId[1]

\* createAccount returned to the sign-up flow, which ended the submit
SignUpEnded(p) ==
  /\ form.pc = "createAccount" /\ form'.pc = "idle"
  /\ Returned(p, "createAccount")

\* C16: when createAccount returns after a signUp that gave an identity and no
\* session (confirmation pending), the submit ends with the form in the login
\* view, a message shown as success, loading cleared and no error shown.
C16_ConfirmationPendingGoesToLogin ==
  [][\A p \in DOMAIN calls :
       (SignUpEnded(p) /\ calls[p].user # None /\ ~calls[p].hasSession) =>
         /\ form'.isLogin
         /\ form'.success # None
         /\ ~form'.isLoading
         /\ form'.error = None]_vars

\* C20: the sign-up flow hands createAccount the text of the name field as the
\* display name; when createAccount returns ok:true with a vault the submit
\* ends with onLogin called with a vault and no error shown; when it returns
\* ok:false the submit ends with the reason shown as the error.
C20_SignUpReadsOkTag ==
  [][\A p \in DOMAIN calls :
       /\ (form.pc = "idle" /\ form'.pc = "createAccount") =>
            calls'[p].name = Some(form'.name)
       /\ (SignUpEnded(p) /\ calls[p].result.ok) =>
            /\ form'.onLogin # None
            /\ form'.error = None
       /\ (SignUpEnded(p) /\ calls[p].result.kind = "result" /\ ~calls[p].result.ok) =>
            form'.error = Some(<<calls[p].result.error>>)]_vars

\* the operations that run fetchVault
Fetching == {"fetchVault", "login", "resumeSession"}

\* C21: while an identity's row holds a state S handed to pushData whose
\* upsert has been acknowledged (so no delete removed the row since), no upsert
\* sent by a fetchVault, login or resumeSession call changes that row, however
\* the steps of the two calls interleave.
C21_ProvisioningNeverClobbers ==
  [][\A p \in DOMAIN calls :
       (calls[p].op \in Fetching /\ calls[p].pc = "upsert"
          /\ calls'[p].pc = "upsertAck") =>
         LET id == calls[p].userId[1]
         IN \A row \in SelectEq(vaults, id) :
              (row.state \in StateInputs /\ hist.acked[id] = Some(row.state)) =>
                row \in vaults']_vars

\* C22: the row an adminGetUserData(email) or adminDeleteAccount(email) call
\* resolved to (the one whose body it returns, the one it deletes) is the row
\* of an identity whose authentication email equals email up to letter case.
C22_AdminResolvesAuthEmail ==
  \A p \in DOMAIN calls :
    (calls[p].op \in {"adminGetUserData", "adminDeleteAccount"}
       /\ calls[p].userId # None) =>
      \A u \in UserOf(calls[p].userId[1]) :
        ToLowerCase(u.email) = ToLowerCase(calls[p].email)

\* what cloudSync.login or cloudSync.createAccount can hand back to an awaiting
\* handleSubmit: ok with a vault (with or without warning), not ok with a
\* reason, or a rejection
ResultInputs ==
  {RetOk(s, w) : s \in StateInputs, w \in {None, WarningOf("Failed to fetch")}}
    \cup {RetFail(msg) : msg \in {"Failed to fetch", "Invalid login credentials",
                                  "Email not confirmed", "User already registered",
                                  "Supabase client not initialized."}}
    \cup {Thrown(msg) : msg \in {"Failed to fetch"}}

\* no submit is in progress, and loading is shown only if onLogin was called
Settled(f) == f.pc = "idle" /\ (f.isLoading => f.onLogin # None)

\* loading is shown after handleSubmit has ended only if onLogin was called
C23_LoadingOnlyAfterOnLogin ==
  (form.pc = "idle" /\ form.isLoading) => form.onLogin # None

\* whatever result the awaited call hands back, the flow that resumes with it
\* ends the submit with onLogin called or loading cleared
C23_EveryResultSettles ==
  /\ form.pc = "login" => \A r \in ResultInputs : Settled(AfterLogin(form, r))
  /\ form.pc = "createAccount" =>
       \A r \in ResultInputs : Settled(AfterCreateAccount(form, r))

\* C23: the form is never left loading: when no submit is in progress loading
\* is shown only if onLogin has been called; a submit in login or sign-up mode
\* ends that way for every result the awaited call can hand back (ok, not ok,
\* thrown); and every submit does end, with onLogin called or loading cleared,
\* provided the remote exchanges it waits for are answered.
C23_NeverStuckLoading ==
  /\ [](C23_LoadingOnlyAfterOnLogin /\ C23_EveryResultSettles)
  /\ form.isLoading ~> (form.onLogin # None \/ ~form.isLoading)

\* a submit that ended without onLogin: an error is shown and loading is cleared
C23_Witness ==
  /\ form.pc = "idle" /\ form.email # <<>>
  /\ form.onLogin = None /\ form.error # None /\ ~form.isLoading

\* a submit that ended with onLogin called
C23_WitnessOnLogin ==
  form.pc = "idle" /\ form.onLogin # None /\ form.isLoading

====
